---------------------------- MODULE Spec2Model ----------------------------
(***************************************************************************)
(* A model of src/utils/enka.py: the file-cached retrieval of a player     *)
(* profile (get_player_dict) and the decoding helpers that read a fetched  *)
(* profile (prop_id_to_artifact_stat, get_artifact_type,                   *)
(* get_character_stat, get_character_weapon, get_character_artifact).      *)
(***************************************************************************)
EXTENDS Integers, Sequences, FiniteSets, TLC

(***************************************************************************)
(* Bounds of the model.                                                    *)
(***************************************************************************)
\* the wall clock runs from 0 to MaxTime ticks
MaxTime == 3
\* the provider's data for the player changes over time: snapshots 1..NumSnapshots
NumSnapshots == 2
\* number of concurrent callers in SpecConc
NumCallers == 2

(***************************************************************************)
(* Python's None, and the callers.                                         *)
(***************************************************************************)
None == "None"

Snapshots == 1..NumSnapshots

\* the single caller of the sequential specification
SeqCallers == {1}

ConcCallers == 1..NumCallers

AllCallers == SeqCallers \cup ConcCallers

(***************************************************************************)
(* Constants imported by enka.py from modules of the repository.           *)
(***************************************************************************)
\* PLAYER_CACHE_EXPIRATION: 1 day, counted in ticks of one day
PLAYER_CACHE_EXPIRATION == 1

\* RESPONSE_CODES: recognized non-200 status code -> human-readable cause
RESPONSE_CODES ==
    [code \in {"404", "424", "429"} |->
       CASE code = "404" -> "player not found"
         [] code = "424" -> "profile not public"
         [] code = "429" -> "rate limited"]

\* status codes the provider may answer with (written as numerals): 200, the
\* recognized ones, and one that is not in the table
StatusCodes == {"200", "404", "424", "429", "500"}

(***************************************************************************)
(* The provider's documents and their JSON text.                           *)
(*                                                                         *)
(* A profile document has a head part (playerInfo) and a body part         *)
(* (the character list of the full endpoint, or nothing more for ?info);   *)
(* both change from one snapshot of the provider's data to the next.       *)
(***************************************************************************)
Endpoints == {"uid", "uid?info"}

\* lines 337-340: the URL requested
Endpoint(summary_only) == IF ~summary_only THEN "uid" ELSE "uid?info"

\* the document the provider serves at an endpoint for snapshot v of its data
ProviderBody(endpoint, v) ==
    [playerInfo |-> v, endpoint |-> endpoint, detail |-> v]

ProviderBodies == {ProviderBody(e, v) : e \in Endpoints, v \in Snapshots}

\* tokens of a JSON text
Tok(t, e, v) == [tok |-> t, e |-> e, v |-> v]
LBrace == Tok("{", "", 0)
RBrace == Tok("}", "", 0)
\* a zero byte of a hole left by a write beyond the end of file
Nul == Tok("NUL", "", 0)

\* json.dump(data, file): the text written, as tokens
JsonDump(data) ==
    << LBrace,
       Tok("playerInfo", "", data.playerInfo),
       Tok("detail", data.endpoint, data.detail),
       RBrace >>

\* the text reaches the file in chunks of ChunkLen tokens
ChunkLen == 2

NumChunks(text) == (Len(text) + ChunkLen - 1) \div ChunkLen

Chunk(text, k) ==
    SubSeq(text, (k - 1) * ChunkLen + 1,
           IF k * ChunkLen < Len(text) THEN k * ChunkLen ELSE Len(text))

\* json.load succeeds on a complete, well-formed text only
JsonWellFormed(text) ==
    /\ Len(text) = 4
    /\ text[1] = LBrace
    /\ text[2].tok = "playerInfo"
    /\ text[3].tok = "detail"
    /\ text[4] = RBrace

JSONDecodeError == [playerInfo |-> 0, endpoint |-> "JSONDecodeError", detail |-> 0]

\* no document
NoDoc == [playerInfo |-> 0, endpoint |-> "", detail |-> 0]

\* json.load(file): the document parsed, or JSONDecodeError
JsonLoad(text) ==
    IF JsonWellFormed(text)
    THEN [playerInfo |-> text[2].v, endpoint |-> text[3].e, detail |-> text[3].v]
    ELSE JSONDecodeError

\* a write of `chunk` at token offset `off` of a file holding `text`: bytes
\* beyond the end of file are zero-filled, bytes under the chunk overwritten,
\* bytes after it kept
WriteAt(text, off, chunk) ==
    LET n == IF off + Len(chunk) > Len(text) THEN off + Len(chunk) ELSE Len(text)
    IN [i \in 1..n |->
          IF i > off /\ i <= off + Len(chunk) THEN chunk[i - off]
          ELSE IF i <= Len(text) THEN text[i]
          ELSE Nul]


(***************************************************************************)
(* State of get_player_dict.                                               *)
(***************************************************************************)
VARIABLES
    now,          \* the wall clock (dt.datetime.now()), in ticks
    fileExists,   \* os.path.exists(file_path) of the player's cache file
    fileContent,  \* the text of the cache file
    fileMtime,    \* os.path.getmtime(file_path)
    pc,           \* pc[c]: where caller c is in get_player_dict
    args,         \* args[c]: the arguments summary_only and allow_file_cache
    response,     \* response[c]: the requests.Response received
    data,         \* data[c]: the local variable data
    pos,          \* pos[c]: the offset of c's open file object, in tokens
    ret,          \* ret[c]: how the call ended (a return value or an exception)
    remoteCalls,  \* remoteCalls[c]: requests.get calls made by the current call
    checked,      \* checked[c]: what the freshness test of the current call saw
    prev,         \* the call that completed last
    subject,      \* the dict handed to a decoding function
    result        \* the decoding call made on subject, and how it ended

cacheVars == << now, fileExists, fileContent, fileMtime, pc, args, response, data,
                pos, ret, remoteCalls, checked, prev >>

decodeVars == << subject, result >>

vars == << cacheVars, decodeVars >>

NoArgs == [summary_only |-> FALSE, allow_file_cache |-> FALSE]
NoResponse == [status_code |-> "", json_ok |-> FALSE, body |-> NoDoc]
NoData == NoDoc
NoRet == [kind |-> "none", exc |-> "", args |-> << >>, response |-> None, value |-> NoDoc]
NotChecked == [seen |-> FALSE, age |-> 0]
NoPrev == [args |-> NoArgs, ret |-> NoRet, remoteCalls |-> 0, checked |-> NotChecked]

\* `return value`
Return(value) ==
    [kind |-> "return", exc |-> "", args |-> << >>, response |-> None, value |-> value]

\* `raise exc(*a)`: the exception object has the class exc and the arguments
\* a (the pieces of its message); `resp` is the status code of the response
\* attribute of the exception object (a requests.HTTPError has one, None
\* unless a response is passed to the constructor)
Raise(exc, a, resp) ==
    [kind |-> "raise", exc |-> exc, args |-> a, response |-> resp, value |-> NoDoc]

\* a cache file left behind by an interrupted writer: a partial text
InterruptedText == Chunk(JsonDump(ProviderBody("uid", 1)), 1)

CacheInit ==
    /\ now = 0
    /\ \/ fileExists = FALSE /\ fileContent = << >>
       \/ fileExists = TRUE /\ fileContent = InterruptedText
    /\ fileMtime = 0
    /\ pc = [c \in AllCallers |-> "idle"]
    /\ args = [c \in AllCallers |-> NoArgs]
    /\ response = [c \in AllCallers |-> NoResponse]
    /\ data = [c \in AllCallers |-> NoData]
    /\ pos = [c \in AllCallers |-> 0]
    /\ ret = [c \in AllCallers |-> NoRet]
    /\ remoteCalls = [c \in AllCallers |-> 0]
    /\ checked = [c \in AllCallers |-> NotChecked]
    /\ prev = NoPrev

\* no decoding call has been made
NoCall == [fn |-> "", arg |-> "", out |-> NoRet]

DecodeIdle == subject = None /\ result = NoCall

(***************************************************************************)
(* get_player_dict, lines 289-357, one action per step that another call   *)
(* can observe.                                                            *)
(***************************************************************************)
\* the wall clock advances
Tick ==
    /\ now < MaxTime
    /\ now' = now + 1
    /\ UNCHANGED << fileExists, fileContent, fileMtime, pc, args, response, data,
                    pos, ret, remoteCalls, checked, prev >>
    /\ UNCHANGED decodeVars

\* get_player_dict(uid, summary_only, allow_file_cache) is called
Call(c) ==
    /\ pc[c] = "idle"
    /\ \E s \in BOOLEAN, a \in BOOLEAN :
          args' = [args EXCEPT ![c] = [summary_only |-> s, allow_file_cache |-> a]]
    /\ pc' = [pc EXCEPT ![c] = "check"]
    /\ UNCHANGED << now, fileExists, fileContent, fileMtime, response, data, pos,
                    ret, remoteCalls, checked, prev >>
    /\ UNCHANGED decodeVars

IsFreshInclusive(clock, mtime) == clock - mtime <= PLAYER_CACHE_EXPIRATION

IsFreshInverted(clock, mtime) == clock - mtime > PLAYER_CACHE_EXPIRATION

\* line 321: dt.datetime.now() - last_modification < PLAYER_CACHE_EXPIRATION
IsFresh(clock, mtime) == clock - mtime < PLAYER_CACHE_EXPIRATION

\* lines 314-329: the existence and freshness test of the cache file
CheckCache(c) ==
    /\ pc[c] = "check"
    /\ IF args[c].allow_file_cache /\ fileExists
       THEN /\ checked' = [checked EXCEPT ![c] = [seen |-> TRUE, age |-> now - fileMtime]]
            /\ pc' = [pc EXCEPT ![c] = IF IsFresh(now, fileMtime) THEN "read" ELSE "fetch"]
       ELSE /\ pc' = [pc EXCEPT ![c] = "fetch"]
            /\ UNCHANGED checked
    /\ UNCHANGED << now, fileExists, fileContent, fileMtime, args, response, data,
                    pos, ret, remoteCalls, prev >>
    /\ UNCHANGED decodeVars

\* lines 323-327: open the file and json.load it; a JSONDecodeError is
\* logged and the call goes on to the remote fetch
ReadCache(c) ==
    /\ pc[c] = "read"
    /\ IF JsonLoad(fileContent) = JSONDecodeError
       THEN /\ pc' = [pc EXCEPT ![c] = "fetch"]
            /\ UNCHANGED ret
       ELSE /\ pc' = [pc EXCEPT ![c] = "done"]
            /\ ret' = [ret EXCEPT ![c] = Return(JsonLoad(fileContent))]
    /\ UNCHANGED << now, fileExists, fileContent, fileMtime, args, response, data,
                    pos, remoteCalls, checked, prev >>
    /\ UNCHANGED decodeVars

\* what requests.get may answer at an endpoint: a 200 with a document of the
\* provider or with a body that is no JSON, or a non-200 status
Responses(endpoint) ==
    { [status_code |-> "200", json_ok |-> TRUE, body |-> ProviderBody(endpoint, v)] :
        v \in Snapshots }
    \cup { [status_code |-> "200", json_ok |-> FALSE, body |-> NoDoc] }
    \cup { [status_code |-> s, json_ok |-> FALSE, body |-> NoDoc] :
             s \in StatusCodes \ {"200"} }

ClassifyUnexpectedFirst(r) ==
    IF r.status_code # "200"
    THEN Raise("Exception", << "Unexpected status code ", r.status_code, "." >>, None)
    ELSE IF ~r.json_ok
    THEN Raise("JSONDecodeError", << "response.json()" >>, None)
    ELSE NoRet

\* lines 343-348: the exception raised for a response, or NoRet when
\* data = response.json() is assigned
Classify(r) ==
    IF r.status_code \in DOMAIN RESPONSE_CODES
    THEN Raise("requests.HTTPError", << RESPONSE_CODES[r.status_code] >>, None)
    ELSE IF r.status_code # "200"
    THEN Raise("Exception", << "Unexpected status code ", r.status_code, "." >>, None)
    ELSE IF ~r.json_ok
    THEN Raise("JSONDecodeError", << "response.json()" >>, None)
    ELSE NoRet

ShouldSaveAlways(a) == TRUE

\* line 351: whether the data fetched is saved to the cache file
ShouldSave(a) == a.allow_file_cache

\* lines 337-351: the request, the classification of its status, and the
\* test of allow_file_cache
RemoteFetch(c) ==
    /\ pc[c] = "fetch"
    /\ \E r \in Responses(Endpoint(args[c].summary_only)) :
          /\ response' = [response EXCEPT ![c] = r]
          /\ remoteCalls' = [remoteCalls EXCEPT ![c] = @ + 1]
          /\ IF Classify(r) # NoRet
             THEN /\ ret' = [ret EXCEPT ![c] = Classify(r)]
                  /\ pc' = [pc EXCEPT ![c] = "done"]
                  /\ UNCHANGED data
             ELSE /\ data' = [data EXCEPT ![c] = r.body]
                  /\ IF ShouldSave(args[c])
                     THEN /\ pc' = [pc EXCEPT ![c] = "open"]
                          /\ UNCHANGED ret
                     ELSE /\ pc' = [pc EXCEPT ![c] = "done"]
                          /\ ret' = [ret EXCEPT ![c] = Return(r.body)]
    /\ UNCHANGED << now, fileExists, fileContent, fileMtime, args, pos, checked,
                    prev >>
    /\ UNCHANGED decodeVars

\* lines 352-353: os.makedirs and open(file_path, "w"), which creates the
\* file or truncates it
OpenWrite(c) ==
    /\ pc[c] = "open"
    /\ fileExists' = TRUE
    /\ fileContent' = << >>
    /\ fileMtime' = now
    /\ pos' = [pos EXCEPT ![c] = 0]
    /\ pc' = [pc EXCEPT ![c] = "write"]
    /\ UNCHANGED << now, args, response, data, ret, remoteCalls, checked, prev >>
    /\ UNCHANGED decodeVars

\* line 354: json.dump(data, file), one chunk of the text at the offset of
\* the file object; after the last chunk the file is closed and data is
\* returned (line 357)
WriteChunk(c) ==
    /\ pc[c] = "write"
    /\ LET text == JsonDump(data[c])
           k == pos[c] \div ChunkLen + 1
       IN /\ fileContent' = WriteAt(fileContent, pos[c], Chunk(text, k))
          /\ pos' = [pos EXCEPT ![c] = @ + Len(Chunk(text, k))]
          /\ IF k = NumChunks(text)
             THEN /\ pc' = [pc EXCEPT ![c] = "done"]
                  /\ ret' = [ret EXCEPT ![c] = Return(data[c])]
             ELSE UNCHANGED << pc, ret >>
    /\ fileMtime' = now
    /\ UNCHANGED << now, fileExists, args, response, data, remoteCalls, checked,
                    prev >>
    /\ UNCHANGED decodeVars

\* the call is over: its result reaches the caller and its locals are gone
Complete(c) ==
    /\ pc[c] = "done"
    /\ prev' = [args |-> args[c], ret |-> ret[c], remoteCalls |-> remoteCalls[c],
                checked |-> checked[c]]
    /\ pc' = [pc EXCEPT ![c] = "idle"]
    /\ args' = [args EXCEPT ![c] = NoArgs]
    /\ response' = [response EXCEPT ![c] = NoResponse]
    /\ data' = [data EXCEPT ![c] = NoData]
    /\ pos' = [pos EXCEPT ![c] = 0]
    /\ ret' = [ret EXCEPT ![c] = NoRet]
    /\ remoteCalls' = [remoteCalls EXCEPT ![c] = 0]
    /\ checked' = [checked EXCEPT ![c] = NotChecked]
    /\ UNCHANGED << now, fileExists, fileContent, fileMtime >>
    /\ UNCHANGED decodeVars


(***************************************************************************)
(* Specifications of get_player_dict.                                      *)
(***************************************************************************)
Step(c) ==
    \/ Call(c)
    \/ CheckCache(c)
    \/ ReadCache(c)
    \/ RemoteFetch(c)
    \/ OpenWrite(c)
    \/ WriteChunk(c)
    \/ Complete(c)

\* one caller, one call after the other
Init == CacheInit /\ DecodeIdle

Next == Tick \/ \E c \in SeqCallers : Step(c)

Spec == Init /\ [][Next]_vars

\* NumCallers callers whose calls overlap, all within one tick of the clock
NextConc == \E c \in ConcCallers : Step(c)

SpecConc == Init /\ [][NextConc]_vars


(***************************************************************************)
(* Claims about get_player_dict.                                           *)
(***************************************************************************)
Returned(c) == pc[c] = "done" /\ ret[c].kind = "return"

Raised(c) == pc[c] = "done" /\ ret[c].kind = "raise"

\* C3: under every interleaving of calls for the same identifier, a call
\* that returns normally returns one complete profile, that is a document
\* the provider served: a cache file that fails to parse (corrupt, empty or
\* partially written by a concurrent call) is never returned in part, the
\* call does not raise on its account and goes on to a remote fetch.
C3_ReturnsCompleteProfile ==
    \A c \in AllCallers :
        /\ Returned(c) => ret[c].value \in ProviderBodies
        /\ Raised(c) => remoteCalls[c] = 1


\* the call of c made a remote fetch that succeeded: status 200 with a body
\* that is JSON
FetchedOk(c) ==
    /\ remoteCalls[c] = 1
    /\ response[c].status_code = "200"
    /\ response[c].json_ok

\* a finished call that found no cache file, was allowed to use one, and
\* returned what the provider answered with status 200
FirstFetch(call) ==
    /\ call.args.allow_file_cache
    /\ ~call.checked.seen
    /\ call.ret.kind = "return"

C2_CacheExpiration ==
    \A c \in SeqCallers :
        pc[c] = "done" =>
          /\ (ret[c].kind = "return" /\ remoteCalls[c] = 0) =>
               /\ checked[c].seen
               /\ checked[c].age < PLAYER_CACHE_EXPIRATION
          /\ (checked[c].seen /\ checked[c].age >= PLAYER_CACHE_EXPIRATION) =>
               /\ remoteCalls[c] = 1
               /\ ret[c].kind = "return" => ret[c].value = response[c].body

\* a call that found the cache file written by the call before it, at an
\* age equal to the window, and fetched
C2_Witness ==
    \E c \in SeqCallers :
        /\ pc[c] = "done"
        /\ FirstFetch(prev)
        /\ checked[c].seen
        /\ checked[c].age = PLAYER_CACHE_EXPIRATION
        /\ remoteCalls[c] = 1
        /\ ret[c].kind = "return"


FileChanged ==
    << fileExists, fileContent, fileMtime >>' # << fileExists, fileContent, fileMtime >>

\* C4: the cache file is created or changed by a call if and only if that
\* call made a successful (status 200) remote fetch with allowCache true,
\* and when such a call ends the file holds exactly the profile fetched,
\* written at the current time; a cache hit, a failed fetch and a call with
\* allowCache false leave the existence, the content and the modification
\* time of the file as they were, and no call deletes the file.
C4_CacheWriteCondition ==
    [][ /\ FileChanged =>
            \E c \in SeqCallers : args[c].allow_file_cache /\ FetchedOk(c)
        /\ fileExists => fileExists'
        /\ \A c \in SeqCallers :
             ( /\ pc[c] # "done"
               /\ pc'[c] = "done"
               /\ args[c].allow_file_cache
               /\ remoteCalls'[c] = 1
               /\ response'[c].status_code = "200"
               /\ response'[c].json_ok ) =>
                 /\ fileExists'
                 /\ fileContent' = JsonDump(response'[c].body)
                 /\ fileMtime' = now
      ]_vars

\* a call that found a cache file, fetched with status 200 and replaced the
\* content of the file by a different profile
C4_Witness ==
    \E c \in SeqCallers :
        /\ pc[c] = "done"
        /\ args[c].allow_file_cache
        /\ FetchedOk(c)
        /\ FirstFetch(prev)
        /\ checked[c].seen
        /\ response[c].body # prev.ret.value
        /\ fileContent = JsonDump(response[c].body)

\* the exception object e carries the status code s: as its response
\* attribute or as a piece of its message
CarriesCode(e, s) == e.response = s \/ \E i \in DOMAIN e.args : e.args[i] = s

CarriesMessage(e, m) == \E i \in DOMAIN e.args : e.args[i] = m

\* the part of C5 that does not depend on what a KnownRemoteError carries
ClassifiedByStatus(c) ==
    LET s == response[c].status_code
        e == ret[c]
    IN /\ s \in DOMAIN RESPONSE_CODES =>
            /\ e.kind = "raise"
            /\ e.exc = "requests.HTTPError"
            /\ CarriesMessage(e, RESPONSE_CODES[s])
       /\ (s \notin DOMAIN RESPONSE_CODES /\ s # "200") =>
            /\ e.kind = "raise"
            /\ e.exc = "Exception"
            /\ CarriesCode(e, s)
       /\ e.kind = "return" => (s = "200" /\ e.value = response[c].body)
       /\ (s = "200" /\ response[c].json_ok) => e = Return(response[c].body)

\* C5 as claimed: a recognized non-200 status fails with KnownRemoteError
\* carrying that code and its message, any other non-200 status fails with
\* the distinct UnexpectedRemoteError carrying the code, and only a 200
\* status yields the parsed body as the profile returned.
C5_AsClaimed ==
    \A c \in SeqCallers :
        (pc[c] = "done" /\ remoteCalls[c] = 1) =>
            /\ ClassifiedByStatus(c)
            /\ response[c].status_code \in DOMAIN RESPONSE_CODES =>
                 CarriesCode(ret[c], response[c].status_code)

\* C5 as amended: a recognized non-200 status fails with KnownRemoteError
\* (requests.HTTPError) carrying the human-readable message of that code,
\* any other non-200 status fails with the distinct UnexpectedRemoteError
\* (Exception) carrying the code, only a 200 status yields the parsed body
\* as the profile returned, and no non-200 status yields a profile.
C5_RemoteErrorClassification ==
    \A c \in SeqCallers :
        (pc[c] = "done" /\ remoteCalls[c] = 1) => ClassifiedByStatus(c)

C5_Witness ==
    \E c \in SeqCallers :
        /\ pc[c] = "done"
        /\ remoteCalls[c] = 1
        /\ response[c].status_code = "429"
        /\ ret[c].exc = "requests.HTTPError"
        /\ ret[c].args = << "rate limited" >>

\* C10: a call that returns normally returns a profile of the endpoint its
\* summaryOnly argument selects: the full profile for summaryOnly false, the
\* info-only one for summaryOnly true, never one cached by an earlier call
\* made with the other value.
C10_ReturnsRequestedEndpoint ==
    \A c \in SeqCallers :
        Returned(c) => ret[c].value.endpoint = Endpoint(args[c].summary_only)


(***************************************************************************)
(* The decoding functions.  A dict is a record; a key that is missing      *)
(* reads as None, which is what nested_get gives for it.                   *)
(***************************************************************************)
\* largest artifact level drawn
MaxLevel == 1
\* longest equipList drawn
MaxEquip == 3
\* most entries of a fightPropMap drawn
MaxProps == 3
\* fightPropMap values are drawn from 0..MaxValue
MaxValue == 1

\* `return value` of a decoding function
Ok(value) == [kind |-> "return", value |-> value]

\* `raise ValueError(message)`: a holds the pieces of the message
ValueError(a) == [kind |-> "raise", exc |-> "ValueError", args |-> a]

\* the decoding functions are pure: they leave the cache alone
CacheIdle == CacheInit /\ fileExists = FALSE

(***************************************************************************)
(* prop_id_to_artifact_stat, lines 16-62                                   *)
(***************************************************************************)
StatModifier ==
    { "HP_FLAT", "HP_PERCENT", "ATK_FLAT", "ATK_PERCENT", "DEF_FLAT", "DEF_PERCENT",
      "CR", "CD", "ER", "EM", "HealingBonus", "DMG_Physical", "DMG_Fire",
      "DMG_Electro", "DMG_Hydro", "DMG_Anemo", "DMG_Cryo", "DMG_Geo", "DMG_Dendro" }

\* lines 21-22
NotValidForArtifact(prop_id) ==
    ValueError(<< "Main stat ", prop_id, " is not valid for an artifact." >>)

\* lines 61-62
InvalidPropertyId(prop_id) == ValueError(<< "Invalid property ID ", prop_id, "." >>)

\* the match statement without its first case
prop_id_to_artifact_stat_no_base_attack(prop_id) ==
    CASE prop_id = "FIGHT_PROP_HP" -> Ok("HP_FLAT")
      [] prop_id = "FIGHT_PROP_HP_PERCENT" -> Ok("HP_PERCENT")
      [] prop_id = "FIGHT_PROP_ATTACK" -> Ok("ATK_FLAT")
      [] prop_id = "FIGHT_PROP_ATTACK_PERCENT" -> Ok("ATK_PERCENT")
      [] prop_id = "FIGHT_PROP_DEFENSE" -> Ok("DEF_FLAT")
      [] prop_id = "FIGHT_PROP_DEFENSE_PERCENT" -> Ok("DEF_PERCENT")
      [] prop_id = "FIGHT_PROP_CRITICAL" -> Ok("CR")
      [] prop_id = "FIGHT_PROP_CRITICAL_HURT" -> Ok("CD")
      [] prop_id = "FIGHT_PROP_CHARGE_EFFICIENCY" -> Ok("ER")
      [] prop_id = "FIGHT_PROP_ELEMENT_MASTERY" -> Ok("EM")
      [] prop_id = "FIGHT_PROP_HEAL_ADD" -> Ok("HealingBonus")
      [] prop_id = "FIGHT_PROP_PHYSICAL_ADD_HURT" -> Ok("DMG_Physical")
      [] prop_id = "FIGHT_PROP_FIRE_ADD_HURT" -> Ok("DMG_Fire")
      [] prop_id = "FIGHT_PROP_ELEC_ADD_HURT" -> Ok("DMG_Electro")
      [] prop_id = "FIGHT_PROP_WATER_ADD_HURT" -> Ok("DMG_Hydro")
      [] prop_id = "FIGHT_PROP_WIND_ADD_HURT" -> Ok("DMG_Anemo")
      [] prop_id = "FIGHT_PROP_ICE_ADD_HURT" -> Ok("DMG_Cryo")
      [] prop_id = "FIGHT_PROP_ROCK_ADD_HURT" -> Ok("DMG_Geo")
      [] prop_id = "FIGHT_PROP_GRASS_ADD_HURT" -> Ok("DMG_Dendro")
      [] OTHER -> InvalidPropertyId(prop_id)

\* lines 16-62
prop_id_to_artifact_stat(prop_id) ==
    CASE prop_id = "FIGHT_PROP_BASE_ATTACK" -> NotValidForArtifact(prop_id)
      [] prop_id = "FIGHT_PROP_HP" -> Ok("HP_FLAT")
      [] prop_id = "FIGHT_PROP_HP_PERCENT" -> Ok("HP_PERCENT")
      [] prop_id = "FIGHT_PROP_ATTACK" -> Ok("ATK_FLAT")
      [] prop_id = "FIGHT_PROP_ATTACK_PERCENT" -> Ok("ATK_PERCENT")
      [] prop_id = "FIGHT_PROP_DEFENSE" -> Ok("DEF_FLAT")
      [] prop_id = "FIGHT_PROP_DEFENSE_PERCENT" -> Ok("DEF_PERCENT")
      [] prop_id = "FIGHT_PROP_CRITICAL" -> Ok("CR")
      [] prop_id = "FIGHT_PROP_CRITICAL_HURT" -> Ok("CD")
      [] prop_id = "FIGHT_PROP_CHARGE_EFFICIENCY" -> Ok("ER")
      [] prop_id = "FIGHT_PROP_ELEMENT_MASTERY" -> Ok("EM")
      [] prop_id = "FIGHT_PROP_HEAL_ADD" -> Ok("HealingBonus")
      [] prop_id = "FIGHT_PROP_PHYSICAL_ADD_HURT" -> Ok("DMG_Physical")
      [] prop_id = "FIGHT_PROP_FIRE_ADD_HURT" -> Ok("DMG_Fire")
      [] prop_id = "FIGHT_PROP_ELEC_ADD_HURT" -> Ok("DMG_Electro")
      [] prop_id = "FIGHT_PROP_WATER_ADD_HURT" -> Ok("DMG_Hydro")
      [] prop_id = "FIGHT_PROP_WIND_ADD_HURT" -> Ok("DMG_Anemo")
      [] prop_id = "FIGHT_PROP_ICE_ADD_HURT" -> Ok("DMG_Cryo")
      [] prop_id = "FIGHT_PROP_ROCK_ADD_HURT" -> Ok("DMG_Geo")
      [] prop_id = "FIGHT_PROP_GRASS_ADD_HURT" -> Ok("DMG_Dendro")
      [] OTHER -> InvalidPropertyId(prop_id)

(***************************************************************************)
(* get_artifact_type, lines 239-256, and get_artifact_level, lines 171-175 *)
(***************************************************************************)
ArtifactType == { "FLOWER", "PLUME", "SANDS", "GOBLET", "CIRCLET" }

\* lines 244-256, for the equip type read at line 241
get_artifact_type(artifact_dict) ==
    LET equip_type == artifact_dict.flat.equipType
    IN CASE equip_type = "EQUIP_BRACER" -> Ok("FLOWER")
         [] equip_type = "EQUIP_NECKLACE" -> Ok("PLUME")
         [] equip_type = "EQUIP_SHOES" -> Ok("SANDS")
         [] equip_type = "EQUIP_RING" -> Ok("GOBLET")
         [] equip_type = "EQUIP_DRESS" -> Ok("CIRCLET")
         [] OTHER -> ValueError(<< "Invalid equip type ", equip_type, "." >>)

\* line 175
get_artifact_level(artifact_dict) == Ok(artifact_dict.reliquary.level)

(***************************************************************************)
(* Specification of the artifact decoders: an artifact dict and a property *)
(* identifier are drawn, and the functions are applied to them.            *)
(***************************************************************************)
EquipTypes ==
    { "EQUIP_BRACER", "EQUIP_NECKLACE", "EQUIP_SHOES", "EQUIP_RING", "EQUIP_DRESS",
      "EQUIP_UNKNOWN", None }

RecognizedPropIds ==
    { "FIGHT_PROP_HP", "FIGHT_PROP_HP_PERCENT", "FIGHT_PROP_ATTACK",
      "FIGHT_PROP_ATTACK_PERCENT", "FIGHT_PROP_DEFENSE", "FIGHT_PROP_DEFENSE_PERCENT",
      "FIGHT_PROP_CRITICAL", "FIGHT_PROP_CRITICAL_HURT", "FIGHT_PROP_CHARGE_EFFICIENCY",
      "FIGHT_PROP_ELEMENT_MASTERY", "FIGHT_PROP_HEAL_ADD", "FIGHT_PROP_PHYSICAL_ADD_HURT",
      "FIGHT_PROP_FIRE_ADD_HURT", "FIGHT_PROP_ELEC_ADD_HURT", "FIGHT_PROP_WATER_ADD_HURT",
      "FIGHT_PROP_WIND_ADD_HURT", "FIGHT_PROP_ICE_ADD_HURT", "FIGHT_PROP_ROCK_ADD_HURT",
      "FIGHT_PROP_GRASS_ADD_HURT" }

BaseAttackId == "FIGHT_PROP_BASE_ATTACK"

\* strings that are no property identifier of the match statement
UnrecognizedPropIds ==
    { "", "fight_prop_hp", "FIGHT_PROP_BASE_HP", "FIGHT_PROP_BASE_DEFENSE", "HP_FLAT" }

PropIds == RecognizedPropIds \cup {BaseAttackId} \cup UnrecognizedPropIds

ArtifactDicts ==
    { [reliquary |-> [level |-> l],
       flat |-> [equipType |-> t, reliquaryMainstat |-> [mainPropId |-> p]]] :
        l \in 0..MaxLevel, t \in EquipTypes, p \in PropIds }

InitArtifact ==
    /\ CacheIdle
    /\ subject \in ArtifactDicts
    /\ result = NoCall

\* prop_id_to_artifact_stat(prop_id) for the main property identifier
CallPropIdToArtifactStat ==
    /\ LET prop_id == subject.flat.reliquaryMainstat.mainPropId
       IN result' = [fn |-> "prop_id_to_artifact_stat", arg |-> prop_id,
                     out |-> prop_id_to_artifact_stat(prop_id)]
    /\ UNCHANGED << subject, cacheVars >>

CallGetArtifactType ==
    /\ result' = [fn |-> "get_artifact_type", arg |-> "",
                  out |-> get_artifact_type(subject)]
    /\ UNCHANGED << subject, cacheVars >>

CallGetArtifactLevel ==
    /\ result' = [fn |-> "get_artifact_level", arg |-> "",
                  out |-> get_artifact_level(subject)]
    /\ UNCHANGED << subject, cacheVars >>

NextArtifact ==
    \/ CallPropIdToArtifactStat
    \/ CallGetArtifactType
    \/ CallGetArtifactLevel

SpecArtifact == InitArtifact /\ [][NextArtifact]_vars

\* C6: prop_id_to_artifact_stat returns one StatKind for each recognized
\* property identifier, fails with InvalidStatIdentifier (the ValueError
\* "Invalid property ID") for every unrecognized string, and fails for
\* FIGHT_PROP_BASE_ATTACK with NotAnArtifactStat (the ValueError "... is not
\* valid for an artifact"), an error that differs from the one an
\* unrecognized string gets.
C6_Translate ==
    result.fn = "prop_id_to_artifact_stat" =>
        LET p == result.arg
            r == result.out
        IN /\ p \in RecognizedPropIds =>
                (r.kind = "return" /\ r.value \in StatModifier)
           /\ p \notin RecognizedPropIds => r.kind = "raise"
           /\ p \in UnrecognizedPropIds =>
                (r.exc = "ValueError" /\ r.args[1] = "Invalid property ID ")
           /\ p = BaseAttackId =>
                /\ r.exc = "ValueError"
                /\ r.args[1] = "Main stat "
                /\ \A q \in UnrecognizedPropIds :
                     r.args[1] # prop_id_to_artifact_stat(q).args[1]

C6_Witness ==
    /\ result.fn = "prop_id_to_artifact_stat"
    /\ result.arg = BaseAttackId
    /\ result.out.kind = "raise"


(***************************************************************************)
(* get_character_weapon, lines 218-236, and get_character_artifact,        *)
(* lines 259-286.  A dict of equipList is returned by reference: the value *)
(* returned is its position in equipList, and 0 stands for None.           *)
(***************************************************************************)
\* a list comprehension keeps the order of the list it filters: the
\* positions kept, in ascending order
RECURSIVE Ascending(_)
Ascending(positions) ==
    IF positions = {} THEN << >>
    ELSE LET first == CHOOSE i \in positions : \A j \in positions : i <= j
         IN << first >> \o Ascending(positions \ {first})

IsNotArtifact(equip_dict) == equip_dict.reliquary = None

\* line 230: nested_get(equip_dict, "weapon") is not None
IsWeapon(equip_dict) == equip_dict.weapon # None

\* line 273: nested_get(equip_dict, "reliquary") is not None
IsArtifact(equip_dict) == equip_dict.reliquary # None

\* lines 225-236
get_character_weapon(character_dict) ==
    LET equip_dicts == character_dict.equipList
        weapon_dict == Ascending({i \in DOMAIN equip_dicts : IsWeapon(equip_dicts[i])})
    IN IF Len(weapon_dict) # 1
       THEN ValueError(<< "Expected one weapon, got ", Len(weapon_dict), "." >>)
       ELSE Ok(weapon_dict[1])

\* the last position of x in seq
RECURSIVE LastIndexOf(_, _)
LastIndexOf(seq, x) ==
    IF seq[Len(seq)] = x THEN Len(seq) ELSE LastIndexOf(SubSeq(seq, 1, Len(seq) - 1), x)

\* line 285: seq.index(x), the first position of x in seq
RECURSIVE IndexOf(_, _)
IndexOf(seq, x) ==
    IF Head(seq) = x THEN 1 ELSE 1 + IndexOf(Tail(seq), x)

\* lines 268-286
get_character_artifact(character_dict, artifact_type) ==
    LET equip_dicts == character_dict.equipList
        artifact_dicts ==
            Ascending({i \in DOMAIN equip_dicts : IsArtifact(equip_dicts[i])})
        typed == [k \in DOMAIN artifact_dicts |->
                    get_artifact_type(equip_dicts[artifact_dicts[k]])]
        failed == {k \in DOMAIN typed : typed[k].kind = "raise"}
        artifact_types == [k \in DOMAIN typed |-> typed[k].value]
    IN IF failed # {}
       THEN typed[CHOOSE k \in failed : \A j \in failed : k <= j]
       ELSE IF \A k \in DOMAIN artifact_types : artifact_types[k] # artifact_type
       THEN Ok(0)
       ELSE Ok(artifact_dicts[IndexOf(artifact_types, artifact_type)])

(***************************************************************************)
(* Specification of the equipment decoders: a character dict is drawn and  *)
(* the two functions are applied to it.                                    *)
(***************************************************************************)
\* the dicts of an equipList: with or without a weapon sub-dict, with or
\* without a reliquary sub-dict, and for those with reliquary data any
\* equip type, recognized or not
EquipDicts ==
    { [weapon |-> w, reliquary |-> None, flat |-> [equipType |-> None]] :
        w \in {None, "weapon"} }
    \cup { [weapon |-> w, reliquary |-> "reliquary", flat |-> [equipType |-> t]] :
             w \in {None, "weapon"}, t \in EquipTypes }

EquipLists == UNION { [1..n -> EquipDicts] : n \in 0..MaxEquip }

InitEquip ==
    /\ CacheIdle
    /\ subject \in { [equipList |-> l] : l \in EquipLists }
    /\ result = NoCall

CallGetCharacterWeapon ==
    /\ result' = [fn |-> "get_character_weapon", arg |-> "",
                  out |-> get_character_weapon(subject)]
    /\ UNCHANGED << subject, cacheVars >>

CallGetCharacterArtifact ==
    /\ \E t \in ArtifactType :
          result' = [fn |-> "get_character_artifact", arg |-> t,
                     out |-> get_character_artifact(subject, t)]
    /\ UNCHANGED << subject, cacheVars >>

NextEquip == CallGetCharacterWeapon \/ CallGetCharacterArtifact

SpecEquip == InitEquip /\ [][NextEquip]_vars

\* the positions of the equipList whose dict lacks reliquary data
WithoutReliquary ==
    {i \in DOMAIN subject.equipList : subject.equipList[i].reliquary = None}

\* the positions of the equipList whose dict carries weapon data
WithWeapon ==
    {i \in DOMAIN subject.equipList : subject.equipList[i].weapon = "weapon"}

\* the result r of weapon() when it selects the dicts at `positions`
SelectsTheOnly(positions, r) ==
    IF Cardinality(positions) = 1
    THEN r.kind = "return" /\ r.value \in positions
    ELSE /\ r.kind = "raise"
         /\ r.exc = "ValueError"
         /\ r.args[1] = "Expected one weapon, got "
         /\ r.args[2] = Cardinality(positions)

\* C7 as claimed: weapon(entry) selects the equipped items that lack
\* reliquary data, returns the item when exactly one lacks it and fails with
\* AmbiguousEquipment for every other count, for every equipment list.
C7_AsClaimed ==
    result.fn = "get_character_weapon" => SelectsTheOnly(WithoutReliquary, result.out)

\* C7 as amended: weapon(entry) selects the equipped items that carry weapon
\* data, returns the item when exactly one carries it and fails with
\* AmbiguousEquipment (the ValueError "Expected one weapon") for every other
\* count, for every equipment list; when every item carries exactly one of
\* the two sub-structures these are the items that lack reliquary data.
C7_Weapon ==
    result.fn = "get_character_weapon" =>
        /\ SelectsTheOnly(WithWeapon, result.out)
        /\ (\A i \in DOMAIN subject.equipList :
               (subject.equipList[i].weapon = None) # (subject.equipList[i].reliquary = None))
             => SelectsTheOnly(WithoutReliquary, result.out)

\* the only item with weapon data also has reliquary data, and an item with
\* neither is in the list
C7_Witness ==
    /\ result.fn = "get_character_weapon"
    /\ result.out.kind = "return"
    /\ subject.equipList[result.out.value].reliquary # None
    /\ \E i \in DOMAIN subject.equipList :
          subject.equipList[i].weapon = None /\ subject.equipList[i].reliquary = None

\* the equip-type string of each ArtifactType
EquipTypeOf ==
    [FLOWER |-> "EQUIP_BRACER", PLUME |-> "EQUIP_NECKLACE", SANDS |-> "EQUIP_SHOES",
     GOBLET |-> "EQUIP_RING", CIRCLET |-> "EQUIP_DRESS"]

\* the positions of the items with reliquary data whose type is t
Matching(t) ==
    {i \in DOMAIN subject.equipList :
        /\ subject.equipList[i].reliquary # None
        /\ subject.equipList[i].flat.equipType = EquipTypeOf[t]}

\* the result of artifact(entry, t): the first matching item, or absent
FirstMatchOrAbsent(t, r) ==
    /\ r.kind = "return"
    /\ IF Matching(t) = {} THEN r.value = 0
       ELSE r.value \in Matching(t) /\ \A i \in Matching(t) : r.value <= i

Untyped ==
    {i \in DOMAIN subject.equipList :
        /\ subject.equipList[i].reliquary # None
        /\ \A t \in ArtifactType : subject.equipList[i].flat.equipType # EquipTypeOf[t]}

Stat == { "HP", "ATK", "DEF", "CR", "CD", "ER", "EM" }

\* fightPropMap.get(code, 0)
Get(fightPropMap, code) ==
    IF code \in DOMAIN fightPropMap THEN fightPropMap[code] ELSE 0

TotalWithoutBase(base, flat, percent) == base * percent + flat

\* lines 195, 200 and 205
Total(base, flat, percent) == base * (1 + percent) + flat

\* lines 190-215
get_character_stat(character_dict, stat) ==
    LET fightPropMap == character_dict.fightPropMap
    IN CASE stat = "HP" ->
              Ok(Total(Get(fightPropMap, "1"), Get(fightPropMap, "2"), Get(fightPropMap, "3")))
         [] stat = "ATK" ->
              Ok(Total(Get(fightPropMap, "4"), Get(fightPropMap, "5"), Get(fightPropMap, "6")))
         [] stat = "DEF" ->
              Ok(Total(Get(fightPropMap, "7"), Get(fightPropMap, "8"), Get(fightPropMap, "9")))
         [] stat = "CR" -> Ok(Get(fightPropMap, "20"))
         [] stat = "CD" -> Ok(Get(fightPropMap, "22"))
         [] stat = "ER" -> Ok(Get(fightPropMap, "23"))
         [] stat = "EM" -> Ok(Get(fightPropMap, "28"))
         [] OTHER -> ValueError(<< "Invalid stat ", stat, "." >>)

(***************************************************************************)
(* Specification of get_character_stat: a character dict with at most      *)
(* MaxProps fight-property codes is drawn and each stat is asked for.      *)
(***************************************************************************)
\* the codes get_character_stat reads, and one it does not read
FightPropCodes ==
    { "1", "2", "3", "4", "5", "6", "7", "8", "9", "20", "22", "23", "28", "10" }

\* what may be asked for: the members of Stat, and a value that is none
RequestedStats == Stat \cup { "DMG_Fire" }

FightPropMaps ==
    UNION { [codes -> 0..MaxValue] :
              codes \in {c \in SUBSET FightPropCodes : Cardinality(c) <= MaxProps} }

InitStat ==
    /\ CacheIdle
    /\ subject \in { [fightPropMap |-> m] : m \in FightPropMaps }
    /\ result = NoCall

CallGetCharacterStat ==
    /\ \E stat \in RequestedStats :
          result' = [fn |-> "get_character_stat", arg |-> stat,
                     out |-> get_character_stat(subject, stat)]
    /\ UNCHANGED << subject, cacheVars >>

NextStat == CallGetCharacterStat

SpecStat == InitStat /\ [][NextStat]_vars

\* the value of a fight-property code of the subject, 0 when it is missing
Prop(code) ==
    IF \E k \in DOMAIN subject.fightPropMap : k = code
    THEN subject.fightPropMap[code]
    ELSE 0

\* the codes of base, flat and percent of the three computed stats
ComponentCodes ==
    ("HP" :> << "1", "2", "3" >>) @@ ("ATK" :> << "4", "5", "6" >>)
        @@ ("DEF" :> << "7", "8", "9" >>)

\* the code of each stat that is read directly
DirectCode == [CR |-> "20", CD |-> "22", ER |-> "23", EM |-> "28"]

\* C9: characterStat for HP, ATK and DEF is base*(1+percent)+flat over the
\* codes 1/2/3, 4/5/6 and 7/8/9, for CR, CD, ER and EM it is the value of
\* the codes 20, 22, 23 and 28; a code that is missing from the map counts
\* as 0, so a map without codes gives 0 for each of the seven stats; any
\* other stat fails with InvalidStat (the ValueError "Invalid stat").
C9_CharacterStat ==
    result.fn = "get_character_stat" =>
        LET stat == result.arg
            r == result.out
        IN /\ stat \in DOMAIN ComponentCodes =>
                LET base == Prop(ComponentCodes[stat][1])
                    flat == Prop(ComponentCodes[stat][2])
                    percent == Prop(ComponentCodes[stat][3])
                IN r.kind = "return" /\ r.value = base + base * percent + flat
           /\ stat \in DOMAIN DirectCode =>
                (r.kind = "return" /\ r.value = Prop(DirectCode[stat]))
           /\ (stat \in Stat /\ DOMAIN subject.fightPropMap = {}) =>
                (r.kind = "return" /\ r.value = 0)
           /\ stat \notin Stat =>
                (r.kind = "raise" /\ r.exc = "ValueError" /\ r.args[1] = "Invalid stat ")

\* a computed stat with the base and the percent present and the flat
\* component missing
C9_Witness ==
    /\ result.fn = "get_character_stat"
    /\ result.arg = "ATK"
    /\ DOMAIN subject.fightPropMap = { "4", "6", "10" }
    /\ subject.fightPropMap["4"] = 1
    /\ subject.fightPropMap["6"] = 1
    /\ result.out = Ok(2)

=============================================================================
